---- MODULE Spec2Model ----
(***************************************************************************)
(* Subtitle cue model, paletted bitmap decoder and rect dispatcher of      *)
(* src/subtitle/mod.rs.                                                    *)
(*                                                                         *)
(* Numbers: a u32 that takes part in bit arithmetic or in the 32-bit       *)
(* product is kept as two 16-bit limbs [hi, lo], so that values above      *)
(* 2^31 and the wrap of width * height are computed exactly.  usize and    *)
(* isize are taken to be 64 bits wide, so the casts "as usize" and         *)
(* "as isize" of a u32 or i32 lose nothing.                                *)
(***************************************************************************)
EXTENDS Integers, Sequences, FiniteSets, TLC

VARIABLES
    overflow_checks,  \* build profile: TRUE when arithmetic overflow panics
    probe,            \* the rect whose conversions are compared with each other
    rect,             \* argument of the current / last from_ffmpeg_rect call
    pc,               \* "idle", "loop" (inside from_bitmap), "panicked", "fault"
    subtitle,         \* from_bitmap: the local `subtitle`
    i,                \* from_bitmap: the output cursor `i`
    y,                \* from_bitmap: the row counter `y`
    x,                \* from_bitmap: the column counter `x`
    result,           \* outcome of the last call, NoResult while it runs
    first,            \* outcome of the first completed conversion of `probe`
    cue,              \* builder chain: the Subtitle value being passed along
    op                \* builder chain: the last builder call and its argument

vars == <<overflow_checks, probe, rect, pc, subtitle, i, y, x, result, first, cue, op>>

---------------------------------------------------------------------------
(* Bounds of the model *)

MaxDim == 2          \* small bitmap widths and heights are 0..MaxDim
MaxPlaneLen == 3     \* explicit index planes hold at most this many bytes
MaxPaletteLen == 2   \* palettes hold 1..MaxPaletteLen entries

---------------------------------------------------------------------------
(* Option<T> and the outcomes of a call *)

None == <<>>
Some(v) == <<v>>

Ok(c) == [tag |-> "Ok", cue |-> Some(c), err |-> None]
Err(e) == [tag |-> "Err", cue |-> None, err |-> Some(e)]
Panic(msg) == [tag |-> "Panic", cue |-> None, err |-> Some(msg)]
Fault == [tag |-> "Fault", cue |-> None, err |-> None]
NoResult == [tag |-> "NoResult", cue |-> None, err |-> None]

---------------------------------------------------------------------------
(* 32-bit unsigned arithmetic on 16-bit limbs *)

Limb == 2^16

U32(hi, lo) == [hi |-> hi, lo |-> lo]

\* a u32 given as a natural number below 2^31
ToU32(n) == U32(n \div Limb, n % Limb)

\* the exact product of two 16-bit limbs, as a u32
MulLimb(a, b) ==
    LET p0 == (a % 256) * b
        p1 == (a \div 256) * b
        low == p0 + (p1 % 256) * 256
    IN  U32((p1 \div 256) + (low \div Limb), low % Limb)

\* the middle column of the schoolbook product a * b
MulMid(a, b) == MulLimb(a.lo, b.lo).hi + MulLimb(a.hi, b.lo).lo + MulLimb(a.lo, b.hi).lo

\* u32 * u32 in a release build: the product modulo 2^32
wrapping_mul(a, b) == U32(MulMid(a, b) % Limb, MulLimb(a.lo, b.lo).lo)

\* TRUE when the exact product does not fit in 32 bits
mul_overflows(a, b) ==
    \/ a.hi # 0 /\ b.hi # 0
    \/ MulLimb(a.hi, b.lo).hi # 0
    \/ MulLimb(a.lo, b.hi).hi # 0
    \/ MulMid(a, b) >= Limb

\* u32 as usize
as_usize(c) == c.hi * Limb + c.lo

\* color >> n, for 0 <= n < 32
shr(c, n) ==
    IF n >= 16
    THEN U32(0, c.hi \div (2^(n - 16)))
    ELSE U32(c.hi \div (2^n), (c.lo \div (2^n)) + (c.hi % (2^n)) * (2^(16 - n)))

\* (v & 0xFF) as u8
low_byte(c) == c.lo % 256

---------------------------------------------------------------------------
(* Cue model *)

Color32_from_rgba_unmultiplied(r, g, b, a) == [r |-> r, g |-> g, b |-> b, a |-> a]
Color32_WHITE == [r |-> 255, g |-> 255, b |-> 255, a |-> 255]
Color32_BLACK == [r |-> 0, g |-> 0, b |-> 0, a |-> 255]
Margin_same(m) == [left |-> m, right |-> m, top |-> m, bottom |-> m]
Align2_CENTER_CENTER == <<"Center", "Center">>
Align2_CENTER_TOP == <<"Center", "Min">>

SubtitleBitmap_default ==
    [data |-> <<>>, x |-> 0, y |-> 0, w |-> 0, h |-> 0, tex_handle |-> None]

Subtitle_default ==
    [text |-> "",
     fade |-> [fade_in_ms |-> 0, fade_out_ms |-> 0],
     remaining_duration_ms |-> 0,
     font_size |-> 30,
     margin |-> Margin_same(85),
     alignment |-> Align2_CENTER_CENTER,
     primary_fill |-> Color32_WHITE,
     position |-> None,
     presentation_time_ms |-> None,
     showing |-> FALSE,
     bitmap |-> SubtitleBitmap_default]

with_text(self, text) == [self EXCEPT !.text = text]

with_duration_ms(self, duration_ms) == [self EXCEPT !.remaining_duration_ms = duration_ms]

with_presentation_time_ms_duration(self, pts) ==
    [self EXCEPT !.presentation_time_ms = Some(pts), !.remaining_duration_ms = pts]

with_presentation_time_ms(self, pts) == [self EXCEPT !.presentation_time_ms = Some(pts)]

from_text_dropped(text) == Subtitle_default

from_text(text) == with_text(Subtitle_default, text)

---------------------------------------------------------------------------
(* Inputs: the four rect variants *)

Texts == {"", "x", "hello"}
Markups == {"{an8}top", "{fad(100,200)}soft", "{an"}
IndexBytes == {0, 1}
PaletteColors == {U32(32784, 8240), U32(255, 32769)}   \* 0x80102030, 0x00FF8001
Offsets == {<<3, 7>>}

\* the smallest width and height whose 32-bit product wraps
BigDim == 2^16

Dims == ((0..MaxDim) \X (0..MaxDim)) \cup {<<BigDim, BigDim>>}
LineSizes == {-1} \cup (1..MaxDim) \cup {BigDim}

SeqsUpTo(S, lo, hi) == UNION {[1..n -> S] : n \in lo..hi}

\* data[0]: either the listed bytes and nothing more, or a buffer of
\* height * linesize bytes that all hold the same value
PlaneBytes(s) == [kind |-> "bytes", bytes |-> s, fill |-> 0]
PlaneUniform(f) == [kind |-> "uniform", bytes |-> <<>>, fill |-> f]
Planes == {PlaneBytes(s) : s \in SeqsUpTo(IndexBytes, 0, MaxPlaneLen)}
              \cup {PlaneUniform(f) : f \in IndexBytes}

\* data[1] read as u32 entries
Palettes == SeqsUpTo(PaletteColors, 1, MaxPaletteLen)

RectAss(raw) == [kind |-> "Ass", raw |-> raw]
RectText(t) == [kind |-> "Text", text |-> t]
RectNone == [kind |-> "None"]
RectBitmap(o, d, ls, pl, pal) ==
    [kind |-> "Bitmap", x |-> o[1], y |-> o[2], w |-> d[1], h |-> d[2],
     linesize |-> ls, plane |-> pl, palette |-> pal]

BitmapRects ==
    {RectBitmap(o, d, ls, pl, pal) :
        o \in Offsets, d \in Dims, ls \in LineSizes, pl \in Planes, pal \in Palettes}

Rects == {RectAss(r) : r \in Markups} \cup {RectText(t) : t \in Texts}
             \cup {RectNone} \cup BitmapRects

---------------------------------------------------------------------------
(* The markup collaborator (subtitle/ass.rs), by its contract *)

MarkupParseError(raw) == [kind |-> "MarkupParseError", msg |-> raw]

parse_ass_subtitle(raw) ==
    CASE raw = "{an8}top" ->
            Ok([Subtitle_default EXCEPT !.text = "top", !.alignment = Align2_CENTER_TOP])
      [] raw = "{fad(100,200)}soft" ->
            Ok([Subtitle_default EXCEPT !.text = "soft",
                    !.fade = [fade_in_ms |-> 100, fade_out_ms |-> 200]])
      [] OTHER -> Err(MarkupParseError(raw))

---------------------------------------------------------------------------
(* Raw reads of from_bitmap.  A read inside the buffer gives the stored    *)
(* value; a read outside it is undefined behaviour: the process is killed  *)
(* (None) or the read delivers whatever lies at that address.              *)

GarbageBytes == {255}
GarbageColors == {U32(57005, 48879)}   \* 0xDEADBEEF

plane_in_bounds(b, off) ==
    IF b.plane.kind = "bytes"
    THEN 0 <= off /\ off < Len(b.plane.bytes)
    ELSE 0 <= off /\ b.linesize > 0 /\ off \div b.linesize < b.h

\* *linedata.wrapping_offset(x), linedata = data[0].wrapping_offset(y * linesize)
read_plane(b, off) ==
    IF plane_in_bounds(b, off)
    THEN {Some(IF b.plane.kind = "bytes" THEN b.plane.bytes[off + 1] ELSE b.plane.fill)}
    ELSE {None} \cup {Some(g) : g \in GarbageBytes}

\* *(data[1] as *mut u32).wrapping_offset(color_id_x)
read_palette(b, color_id) ==
    IF color_id < Len(b.palette)
    THEN {Some(b.palette[color_id + 1])}
    ELSE {None} \cup {Some(g) : g \in GarbageColors}

unpack_bgr(color) ==
    LET r == low_byte(shr(color, 0))
        g == low_byte(shr(color, 8))
        b == low_byte(shr(color, 16))
        a == low_byte(shr(color, 24))
    IN  Color32_from_rgba_unmultiplied(r, g, b, a)

\* the four channel extractions and the pixel they build
unpack(color) ==
    LET r == low_byte(shr(color, 16))
        g == low_byte(shr(color, 8))
        b == low_byte(shr(color, 0))
        a == low_byte(shr(color, 24))
    IN  Color32_from_rgba_unmultiplied(r, g, b, a)

\* Vec::resize on the empty vector
resize(n, value) == [k \in 1..n |-> value]

alloc_len_square(b) == as_usize(wrapping_mul(ToU32(b.w), ToU32(b.w)))

\* (bitmap.width() * bitmap.height()) as usize
alloc_len(b) == as_usize(wrapping_mul(ToU32(b.w), ToU32(b.h)))

---------------------------------------------------------------------------
(* from_ffmpeg_rect: the three arms that finish in one step *)

\* anyhow::bail!(msg): an error made of a message and nothing else
anyhow_msg(msg) == [kind |-> "anyhow::msg", msg |-> msg]

arm_Ass_fallback(raw) ==
    IF parse_ass_subtitle(raw).tag = "Err" THEN Ok(from_text(raw)) ELSE parse_ass_subtitle(raw)

arm_Ass(raw) == parse_ass_subtitle(raw)

arm_None_empty_cue == Ok(Subtitle_default)

arm_None == Err(anyhow_msg("no subtitle"))

arm_Text(text) == Ok(from_text(text))

\* rects converted between two conversions of the probe
Others == {RectNone, RectText("x"), RectAss("{an")}

Calls == {probe} \cup Others

\* the call on r ends with outcome out; the locals of from_bitmap are gone.
\* A fault kills the process; a panic unwinds the calling thread, and no
\* handler in this file catches it, so neither is followed by another call.
Return(r, out) ==
    /\ result' = out
    /\ first' = IF r = probe /\ first = NoResult THEN out ELSE first
    /\ pc' = CASE out.tag = "Fault" -> "fault"
                [] out.tag = "Panic" -> "panicked"
                [] OTHER -> "idle"
    /\ subtitle' = Subtitle_default
    /\ i' = 0
    /\ y' = 0
    /\ x' = 0

MatchAss(r) ==
    /\ pc = "idle"
    /\ r.kind = "Ass"
    /\ rect' = r
    /\ Return(r, arm_Ass(r.raw))
    /\ UNCHANGED <<overflow_checks, probe, cue, op>>

MatchNone(r) ==
    /\ pc = "idle"
    /\ r.kind = "None"
    /\ rect' = r
    /\ Return(r, arm_None)
    /\ UNCHANGED <<overflow_checks, probe, cue, op>>

MatchText(r) ==
    /\ pc = "idle"
    /\ r.kind = "Text"
    /\ rect' = r
    /\ Return(r, arm_Text(r.text))
    /\ UNCHANGED <<overflow_checks, probe, cue, op>>

---------------------------------------------------------------------------
(* from_ffmpeg_rect, Bitmap arm: from_bitmap *)

\* from_bitmap up to the first loop test: the four copied fields, the
\* product (which panics under overflow checks), the resize, i = 0
MatchBitmap(r) ==
    /\ pc = "idle"
    /\ r.kind = "Bitmap"
    /\ rect' = r
    /\ IF overflow_checks /\ mul_overflows(ToU32(r.w), ToU32(r.h))
       THEN Return(r, Panic("attempt to multiply with overflow"))
       ELSE /\ subtitle' = [Subtitle_default EXCEPT
                                !.bitmap.x = r.x, !.bitmap.y = r.y,
                                !.bitmap.w = r.w, !.bitmap.h = r.h,
                                !.bitmap.data = resize(alloc_len(r), Color32_BLACK)]
            /\ i' = 0
            /\ y' = 0
            /\ x' = 0
            /\ pc' = "loop"
            /\ result' = NoResult
            /\ UNCHANGED first
    /\ UNCHANGED <<overflow_checks, probe, cue, op>>

\* one pass through the body of the inner loop
LoopBody ==
    /\ pc = "loop"
    /\ y < rect.h
    /\ x < rect.w
    /\ \E color_id_x \in read_plane(rect, y * rect.linesize + x) :
          IF color_id_x = None
          THEN Return(rect, Fault)
          ELSE \E color \in read_palette(rect, color_id_x[1]) :
                  IF color = None
                  THEN Return(rect, Fault)
                  ELSE IF i >= Len(subtitle.bitmap.data)
                       THEN Return(rect, Panic("index out of bounds"))
                       ELSE /\ subtitle' = [subtitle EXCEPT
                                               !.bitmap.data[i + 1] = unpack(color[1])]
                            /\ i' = i + 1
                            /\ x' = IF x + 1 < rect.w THEN x + 1 ELSE 0
                            /\ y' = IF x + 1 < rect.w THEN y ELSE y + 1
                            /\ UNCHANGED <<pc, result, first>>
    /\ UNCHANGED <<overflow_checks, probe, rect, cue, op>>

\* both loops are over: from_bitmap returns and the arm wraps it in Ok
LoopExit ==
    /\ pc = "loop"
    /\ (y >= rect.h \/ rect.w = 0)
    /\ Return(rect, Ok(subtitle))
    /\ UNCHANGED <<overflow_checks, probe, rect, cue, op>>

---------------------------------------------------------------------------
(* The builder chain *)

Durations == {0, 1000, -5}
PresentationTimes == {0, 500}

NoOp == [name |-> "none", text |-> "", num |-> 0]

StartCues ==
    {Subtitle_default,
     from_text("hello"),
     [Subtitle_default EXCEPT !.text = "top", !.alignment = Align2_CENTER_TOP,
                              !.showing = TRUE, !.position = Some(<<10, 20>>)],
     [Subtitle_default EXCEPT !.bitmap = [data |-> <<Color32_BLACK>>, x |-> 3, y |-> 7,
                                          w |-> 1, h |-> 1, tex_handle |-> None]]}

CallWithText(text) ==
    /\ cue' = with_text(cue, text)
    /\ op' = [name |-> "with_text", text |-> text, num |-> 0]
    /\ UNCHANGED <<overflow_checks, probe, rect, pc, subtitle, i, y, x, result, first>>

CallWithDurationMs(duration_ms) ==
    /\ cue' = with_duration_ms(cue, duration_ms)
    /\ op' = [name |-> "with_duration_ms", text |-> "", num |-> duration_ms]
    /\ UNCHANGED <<overflow_checks, probe, rect, pc, subtitle, i, y, x, result, first>>

CallWithPresentationTimeMs(pts) ==
    /\ cue' = with_presentation_time_ms(cue, pts)
    /\ op' = [name |-> "with_presentation_time_ms", text |-> "", num |-> pts]
    /\ UNCHANGED <<overflow_checks, probe, rect, pc, subtitle, i, y, x, result, first>>

---------------------------------------------------------------------------
(* Specifications *)

Init ==
    /\ overflow_checks \in BOOLEAN
    /\ probe \in Rects
    /\ rect = RectNone
    /\ pc = "idle"
    /\ subtitle = Subtitle_default
    /\ i = 0
    /\ y = 0
    /\ x = 0
    /\ result = NoResult
    /\ first = NoResult
    /\ cue = Subtitle_default
    /\ op = NoOp

Next ==
    \/ \E r \in Calls : MatchAss(r)
    \/ \E r \in Calls : MatchBitmap(r)
    \/ \E r \in Calls : MatchNone(r)
    \/ \E r \in Calls : MatchText(r)
    \/ LoopBody
    \/ LoopExit

Spec == Init /\ [][Next]_vars

InitBuilder ==
    /\ overflow_checks = FALSE
    /\ probe = RectNone
    /\ rect = RectNone
    /\ pc = "idle"
    /\ subtitle = Subtitle_default
    /\ i = 0
    /\ y = 0
    /\ x = 0
    /\ result = NoResult
    /\ first = NoResult
    /\ cue \in StartCues
    /\ op = NoOp

NextBuilder ==
    \/ \E text \in Texts : CallWithText(text)
    \/ \E duration_ms \in Durations : CallWithDurationMs(duration_ms)
    \/ \E pts \in PresentationTimes : CallWithPresentationTimeMs(pts)

SpecBuilder == InitBuilder /\ [][NextBuilder]_vars

---------------------------------------------------------------------------
(* Vocabulary of the properties *)

\* the last call was on a rect of this kind and has ended
Ended(kind) == result # NoResult /\ rect.kind = kind

\* every read the loops make for b stays inside data[0]
ReadsInBounds(b) ==
    \/ b.w = 0
    \/ b.h = 0
    \/ IF b.plane.kind = "uniform"
       THEN b.linesize > 0 /\ b.w <= b.linesize
       ELSE /\ b.w <= Len(b.plane.bytes)
            /\ \/ b.h = 1
               \/ /\ b.linesize > 0
                  /\ b.h - 1 <= (Len(b.plane.bytes) - b.w) \div b.linesize

\* every index byte the loops read for b is a position of the palette
IndicesInPalette(b) ==
    \/ b.w = 0
    \/ b.h = 0
    \/ IF b.plane.kind = "uniform"
       THEN b.plane.fill < Len(b.palette)
       ELSE \A yy \in 0..(b.h - 1) : \A xx \in 0..(b.w - 1) :
               b.plane.bytes[yy * b.linesize + xx + 1] < Len(b.palette)

ReadsValid(b) == ReadsInBounds(b) /\ IndicesInPalette(b)

\* a valid paletted bitmap: stride at least the width, reads valid
ValidBitmap(b) == b.linesize >= b.w /\ ReadsValid(b)

\* the index byte of pixel (xx, yy) of a bitmap whose reads are in bounds
IndexAt(b, xx, yy) ==
    IF b.plane.kind = "uniform" THEN b.plane.fill
    ELSE b.plane.bytes[yy * b.linesize + xx + 1]

\* 0xAARRGGBB as straight-alpha RGBA
Rgba(c) == [r |-> c.hi % 256, g |-> c.lo \div 256, b |-> c.lo % 256, a |-> c.hi \div 256]

---------------------------------------------------------------------------
(* C1: whenever from_bitmap returns a pixel array, its length is           *)
(* width * height if both are positive, and it is empty if either is 0.    *)

C1_PixelCount ==
    (Ended("Bitmap") /\ result.tag = "Ok") =>
        LET data == result.cue[1].bitmap.data
        IN  IF rect.w > 0 /\ rect.h > 0
            THEN Len(data) = rect.w * rect.h
            ELSE data = <<>>

C1_Witness ==
    /\ Ended("Bitmap")
    /\ result.tag = "Ok"
    /\ ValidBitmap(rect)
    /\ rect.w = 2
    /\ rect.h = 2
    /\ Len(result.cue[1].bitmap.data) = 4

(* C2: for a valid bitmap, output pixel y * width + x is the straight-alpha *)
(* RGBA value of palette[index_plane[y * stride + x]]; padding bytes of a   *)
(* row do not matter.                                                       *)

C2_PixelValues ==
    (Ended("Bitmap") /\ ValidBitmap(rect) /\ result.tag = "Ok") =>
        \A yy \in 0..(rect.h - 1) : \A xx \in 0..(rect.w - 1) :
            result.cue[1].bitmap.data[yy * rect.w + xx + 1]
                = Rgba(rect.palette[IndexAt(rect, xx, yy) + 1])

C2_Witness ==
    /\ Ended("Bitmap")
    /\ result.tag = "Ok"
    /\ rect.w = 1
    /\ rect.h = 2
    /\ rect.linesize = 2
    /\ rect.plane = PlaneBytes(<<1, 0, 0>>)
    /\ rect.palette = <<U32(255, 32769), U32(32784, 8240)>>
    /\ result.cue[1].bitmap.data
           = <<[r |-> 16, g |-> 32, b |-> 48, a |-> 128],
               [r |-> 255, g |-> 128, b |-> 1, a |-> 0]>>

(* C3, as stated: converting the None rect yields a failure classified    *)
(* NoSubtitleContent.                                                      *)

ReachedLoop == result # Panic("attempt to multiply with overflow")

C4_DecodeErrorReported ==
    (Ended("Bitmap") /\ ~ReadsValid(rect) /\ ReachedLoop) =>
        /\ result.tag = "Err"
        /\ result.cue = None
        /\ result.err[1].kind = "BitmapDecodeError"

(* C5: converting Text(t) succeeds with a Cue whose text is t, whose       *)
(* bitmap is empty and whose other fields have their default values.       *)

C5_TextCue ==
    Ended("Text") =>
        /\ result.tag = "Ok"
        /\ LET c == result.cue[1]
           IN  /\ c.text = rect.text
               /\ c.bitmap.data = <<>>
               /\ c.bitmap.x = 0
               /\ c.bitmap.y = 0
               /\ c.bitmap.w = 0
               /\ c.bitmap.h = 0
               /\ c.bitmap.tex_handle = None
               /\ c.fade = [fade_in_ms |-> 0, fade_out_ms |-> 0]
               /\ c.alignment = <<"Center", "Center">>
               /\ c.primary_fill = [r |-> 255, g |-> 255, b |-> 255, a |-> 255]
               /\ c.position = None
               /\ c.font_size = 30
               /\ c.margin = [left |-> 85, right |-> 85, top |-> 85, bottom |-> 85]
               /\ c.remaining_duration_ms = 0
               /\ c.presentation_time_ms = None
               /\ c.showing = FALSE

C5_Witness ==
    /\ Ended("Text")
    /\ rect.text = "hello"
    /\ result.tag = "Ok"
    /\ result.cue[1].text = "hello"

(* C6: each builder call sets its own field to its argument and leaves     *)
(* every other field of the Cue as it was.                                 *)

SameExceptText(c, d) ==
    /\ d.fade = c.fade
    /\ d.alignment = c.alignment
    /\ d.primary_fill = c.primary_fill
    /\ d.position = c.position
    /\ d.font_size = c.font_size
    /\ d.margin = c.margin
    /\ d.showing = c.showing
    /\ d.bitmap = c.bitmap

C6_BuilderFrame ==
    [][/\ op'.name = "with_text" =>
            /\ cue'.text = op'.text
            /\ cue'.remaining_duration_ms = cue.remaining_duration_ms
            /\ cue'.presentation_time_ms = cue.presentation_time_ms
            /\ SameExceptText(cue, cue')
       /\ op'.name = "with_duration_ms" =>
            /\ cue'.remaining_duration_ms = op'.num
            /\ cue'.text = cue.text
            /\ cue'.presentation_time_ms = cue.presentation_time_ms
            /\ SameExceptText(cue, cue')
       /\ op'.name = "with_presentation_time_ms" =>
            /\ cue'.presentation_time_ms = <<op'.num>>
            /\ cue'.text = cue.text
            /\ cue'.remaining_duration_ms = cue.remaining_duration_ms
            /\ SameExceptText(cue, cue')]_vars

C6_Witness ==
    /\ op.name = "with_presentation_time_ms"
    /\ cue.text = "x"
    /\ cue.remaining_duration_ms = 1000
    /\ cue.presentation_time_ms = <<500>>
    /\ SameExceptText(Subtitle_default, cue)

(* C7: converting a Markup rect returns what the markup collaborator       *)
(* returns for the raw text, its Cue or its failure, and nothing else.     *)

C7_MarkupPassThrough ==
    Ended("Ass") =>
        /\ result = parse_ass_subtitle(rect.raw)
        /\ parse_ass_subtitle(rect.raw).tag = "Err" => result.cue = None

C7_Witness ==
    /\ Ended("Ass")
    /\ rect.raw = "{an"
    /\ result.tag = "Err"
    /\ result.err[1].kind = "MarkupParseError"

(* C8: every conversion of a rect ends as the first conversion of that     *)
(* rect did, whatever was converted in between.                            *)

C8_SameRectSameOutcome ==
    (result # NoResult /\ rect = probe) => result = first

(* C9: converting a valid Bitmap rect succeeds with a Cue that carries the *)
(* rect's x, y, width and height, no texture handle, and default values    *)
(* in every field outside the bitmap.                                      *)

C9_BitmapCue ==
    (Ended("Bitmap") /\ ValidBitmap(rect)) =>
        /\ result.tag = "Ok"
        /\ LET c == result.cue[1]
           IN  /\ c.bitmap.x = rect.x
               /\ c.bitmap.y = rect.y
               /\ c.bitmap.w = rect.w
               /\ c.bitmap.h = rect.h
               /\ c.bitmap.tex_handle = None
               /\ c.text = ""
               /\ c.remaining_duration_ms = 0
               /\ c.presentation_time_ms = None
               /\ SameExceptText(Subtitle_default, [c EXCEPT !.bitmap = SubtitleBitmap_default])

(* C10: whenever the loop body is about to run, the cursor i is below the  *)
(* length of the pixel array, and no write ever panics.                    *)

C10_CursorBelowLen ==
    /\ (pc = "loop" /\ y < rect.h /\ x < rect.w) => i < Len(subtitle.bitmap.data)
    /\ result.tag = "Panic" => result.err # Some("index out of bounds")

====
